---- MODULE Spec2Model ----
(***************************************************************************)
(* Plan store and index synchronisation of dotplan (class PlanManager).    *)
(*                                                                         *)
(* The authoritative store is the directory .plan/plans (one YAML file     *)
(* per plan); the relational index is the SQLite file .plan/index.db.      *)
(* JavaScript runs one synchronous segment at a time: every action below   *)
(* is one such segment (a call up to its first await, or the continuation  *)
(* after an await up to the next one) or the effect of one file operation  *)
(* that the segment before it started.                                     *)
(***************************************************************************)
EXTENDS Integers, Sequences, FiniteSets, TLC

\* ------------------------------------------------------------------ bounds
MaxCalls == 2        \* async calls of the manager that may be in flight at once
MaxClock == 1        \* clock readings 0..MaxClock
MaxOps == 4          \* calls of users, edits from outside and clock ticks in one behaviour

\* ------------------------------------------------------------------ values
Null == "null"                      \* JS null / SQL NULL

Titles == {"A", "B"}

\* title.toLowerCase().replace(/[^a-z0-9]+/g, '-').substring(0, 30)
Slug(title) == IF title = "A" THEN "a" ELSE "b"

\* md5(title).substring(0, 6): a function of the title only
Md5(title) == IF title = "A" THEN "7f" ELSE "9d"

\* new Date().toISOString().split('T')[0]: every clock reading of the model is on one day
DateOf(t) == "d0"

_generatePlanId(title, t) == DateOf(t) \o "-" \o Slug(title) \o "-" \o Md5(title)

IdA == _generatePlanId("A", 0)
IdB == _generatePlanId("B", 0)
PlanIds == {IdA, IdB}

ValidStatus == {"draft", "active", "completed", "deprecated"}

\* one entry of planning.decisions as the record files give it
Decision1 == [description |-> "use sqlite", rationale |-> "simple", alternatives |-> <<"postgres">>]

\* the plan object createPlan builds
NewPlan(planId, timestamp, title, description) ==
  [id |-> planId,
   timestamp |-> timestamp,
   status |-> "draft",
   title |-> title,
   description |-> description,
   planning |-> [problem |-> description, approach |-> "", constraints |-> <<>>, decisions |-> <<>>],
   implementation |-> [actual_approach |-> "", deviations |-> <<>>, patterns_established |-> <<>>],
   relationships |-> [enables |-> <<>>, blocks |-> <<>>, modifies |-> <<>>],
   affected_files |-> <<>>]

\* ------------------------------------------------------------------ files
NoFile == [kind |-> "absent", doc |-> Null]
Garbage == [kind |-> "garbage", doc |-> Null]     \* text that yaml.load rejects

\* yaml.dump(plan): the text of a file holding the document
YamlDump(plan) == [kind |-> "yaml", doc |-> plan]

\* yaml.load(content) throws on text that is not YAML
YamlLoads(content) == content.kind = "yaml"

YamlLoad(content) == content.doc

\* glob('*.yaml', {cwd: plansPath}): the files present in the directory
Glob(fs) == {f \in DOMAIN fs : fs[f].kind # "absent"}

\* ------------------------------------------------------------------ index
\* the tables of _initializeSchema; seq is sqlite_sequence (AUTOINCREMENT)
EmptyDb ==
  [plans |-> {},
   plan_search |-> <<>>,
   plan_edges |-> {},
   file_plans |-> {},
   decisions |-> {},
   patterns |-> {},
   constraints |-> {},
   seq |-> [decisions |-> 0, patterns |-> 0, constraints |-> 0]]

HasPlan(db, id) == \E r \in db.plans : r.id = id

RowOf(db, id) == CHOOSE r \in db.plans : r.id = id

\* value || ''
OrEmpty(value) == IF value = Null THEN "" ELSE value

\* the values _indexPlan (and, for a new plan, createPlan) binds to the plans columns
PlanRow(plan) ==
  [id |-> plan.id,
   timestamp |-> plan.timestamp,
   status |-> plan.status,
   title |-> plan.title,
   description |-> OrEmpty(plan.description),
   content |-> plan]                \* JSON.stringify(plan)

\* trigger plans_ai: AFTER INSERT ON plans
SearchDoc(row) ==
  [plan_id |-> row.id, title |-> row.title, description |-> row.description, content |-> row.content]

\* title TEXT NOT NULL, status CHECK(...): SQL NULL passes a CHECK
RowAccepted(row) ==
  /\ row.title # Null
  /\ row.status \in ValidStatus \cup {Null}

PutPlan(db, row) ==
  [db EXCEPT !.plans = {r \in @ : r.id # row.id} \cup {row},
             !.plan_search = Append(@, SearchDoc(row))]

\* INSERT INTO plans of createPlan: fails on an existing id
InsertPlan(db, row) ==
  IF RowAccepted(row) /\ ~HasPlan(db, row.id)
  THEN [db |-> PutPlan(db, row), ok |-> TRUE]
  ELSE [db |-> db, ok |-> FALSE]

\* INSERT OR REPLACE INTO plans: the old row is replaced without firing
\* plans_ad (recursive_triggers is off), plans_ai fires for the new row
UpsertPlan(db, row) ==
  IF RowAccepted(row)
  THEN [db |-> PutPlan(db, row), ok |-> TRUE]
  ELSE [db |-> db, ok |-> FALSE]

\* an _indexPlan without its DELETE statements
DeleteNothing(db, id) == db

\* the four DELETE ... WHERE plan_id = ? of _indexPlan
DeleteDerived(db, id) ==
  [db EXCEPT !.file_plans = {r \in @ : r.plan_id # id},
             !.decisions = {r \in @ : r.plan_id # id},
             !.patterns = {r \in @ : r.plan_id # id},
             !.constraints = {r \in @ : r.plan_id # id}]

RECURSIVE InsertFiles(_, _, _)
\* INSERT INTO file_plans, one statement per entry; PRIMARY KEY (file_path, plan_id)
InsertFiles(db, id, paths) ==
  IF paths = <<>> THEN [db |-> db, ok |-> TRUE]
  ELSE IF \E r \in db.file_plans : r.file_path = Head(paths) /\ r.plan_id = id
       THEN [db |-> db, ok |-> FALSE]
       ELSE InsertFiles([db EXCEPT !.file_plans = @ \cup
                           {[file_path |-> Head(paths), plan_id |-> id, operation |-> "modified"]}],
                        id, Tail(paths))

\* JSON.stringify(decision.alternatives_considered || [])
AlternativesOf(decision) ==
  IF "alternatives_considered" \in DOMAIN decision THEN decision.alternatives_considered ELSE <<>>

RECURSIVE InsertDecisions(_, _, _, _)
\* INSERT INTO decisions: id AUTOINCREMENT, timestamp DEFAULT CURRENT_TIMESTAMP
InsertDecisions(db, id, ds, t) ==
  IF ds = <<>> THEN db
  ELSE InsertDecisions(
         [db EXCEPT !.seq.decisions = @ + 1,
                    !.decisions = @ \cup
                      {[id |-> db.seq.decisions + 1, plan_id |-> id, decision_type |-> Null,
                        description |-> Head(ds).description, rationale |-> Head(ds).rationale,
                        alternatives |-> AlternativesOf(Head(ds)), timestamp |-> t]}],
         id, Tail(ds), t)

RECURSIVE InsertPatterns(_, _, _)
InsertPatterns(db, id, ps) ==
  IF ps = <<>> THEN db
  ELSE InsertPatterns(
         [db EXCEPT !.seq.patterns = @ + 1,
                    !.patterns = @ \cup
                      {[id |-> db.seq.patterns + 1, plan_id |-> id, pattern |-> Head(ps),
                        category |-> "implementation", usage_count |-> 1]}],
         id, Tail(ps))

\* a constraint stored as an error
ErrorConstraintRow(key, id, constraint) ==
  [id |-> key, plan_id |-> id, constraint_type |-> "planning",
   description |-> constraint, severity |-> "error"]

\* insertConstraint.run(plan.id, constraint, 'planning', 'warning')
ConstraintRow(key, id, constraint) ==
  [id |-> key, plan_id |-> id, constraint_type |-> "planning",
   description |-> constraint, severity |-> "warning"]

RECURSIVE InsertConstraints(_, _, _)
InsertConstraints(db, id, cs) ==
  IF cs = <<>> THEN db
  ELSE InsertConstraints(
         [db EXCEPT !.seq.constraints = @ + 1,
                    !.constraints = @ \cup {ConstraintRow(db.seq.constraints + 1, id, Head(cs))}],
         id, Tail(cs))

\* the statements of _indexPlan after the upsert, each one committed on its own
IndexDerived(db, plan, t) ==
  LET cleared == DeleteDerived(db, plan.id)
      withFiles == InsertFiles(cleared, plan.id, plan.affected_files)
  IN IF ~withFiles.ok THEN withFiles
     ELSE [db |-> InsertConstraints(
                    InsertPatterns(
                      InsertDecisions(withFiles.db, plan.id, plan.planning.decisions, t),
                      plan.id, plan.implementation.patterns_established),
                    plan.id, plan.planning.constraints),
           ok |-> TRUE]

\* an _indexPlan that goes on to the derived rows after its upsert has failed
_indexPlanKeepsGoing(db, plan, t) ==
  LET up == UpsertPlan(db, PlanRow(plan))
      derived == IndexDerived(up.db, plan, t)
  IN [db |-> derived.db, ok |-> up.ok /\ derived.ok]

\* _indexPlan(plan) at clock reading t: the index after the call, and
\* whether the call returned (ok) or threw at its first failing statement
_indexPlan(db, plan, t) ==
  LET up == UpsertPlan(db, PlanRow(plan))
  IN IF ~up.ok THEN up ELSE IndexDerived(up.db, plan, t)


\* the six DELETE statements that open reindexPlans, each committed on its
\* own.  DELETE FROM plans fires plans_ad for every row, and plans_ad reads
\* column plan_id of plan_search through its content table plans, which has
\* no such column: with at least one Plan row the statement fails
\* ("no such column: T.plan_id") and is rolled back alone.
ClearAll(db) ==
  LET cleared == [db EXCEPT !.constraints = {}, !.patterns = {}, !.decisions = {},
                            !.file_plans = {}, !.plan_edges = {}]
  IN IF db.plans = {} THEN [db |-> cleared, ok |-> TRUE]
     ELSE [db |-> cleared, ok |-> FALSE]

\* ------------------------------------------------------------------ merge
\* JavaScript values as yaml.load and JSON.parse give them, tagged with
\* their type; a string is the sequence of its characters
JsNull == [t |-> "null"]

JsString(chars) == [t |-> "string", s |-> chars]

JsList(items) == [t |-> "list", l |-> items]

JsObject(props) == [t |-> "object", o |-> props]

\* item && typeof item === 'object' && !Array.isArray(item)
_isObject(item) == item.t = "object"

\* the property name of index i of a string or an array
IndexKey(i) == ToString(i - 1)

\* { ...target }: the own enumerable properties of the value (none for null,
\* the characters of a string and the items of an array under their indexes)
Spread(target) ==
  IF target.t = "object" THEN target.o
  ELSE IF target.t = "string"
  THEN [k \in {IndexKey(i) : i \in DOMAIN target.s} |->
          JsString(<<target.s[CHOOSE i \in DOMAIN target.s : IndexKey(i) = k]>>)]
  ELSE IF target.t = "list"
  THEN [k \in {IndexKey(i) : i \in DOMAIN target.l} |->
          target.l[CHOOSE i \in DOMAIN target.l : IndexKey(i) = k]]
  ELSE [k \in {} |-> JsNull]

RECURSIVE deepMergeValue(_, _)
\* _deepMerge(target, source) on any two values
deepMergeValue(target, source) ==
  LET output == Spread(target)
  IN IF _isObject(target) /\ _isObject(source)
     THEN JsObject([key \in DOMAIN output \cup DOMAIN source.o |->
            IF key \notin DOMAIN source.o THEN output[key]
            ELSE IF _isObject(source.o[key])
            THEN IF key \notin DOMAIN target.o THEN source.o[key]
                 ELSE deepMergeValue(target.o[key], source.o[key])
            ELSE source.o[key]])
     ELSE JsObject(output)

\* _isObject(source[key]) for the keys of a plan record: the three sections
\* are mappings, every other key holds a scalar or a list
IsObjectKey(k) == k \in {"planning", "implementation", "relationships"}

RECURSIVE _deepMerge(_, _)
\* _deepMerge on plan records (TLA+ records) whose sections are mappings, as
\* createPlan writes them
_deepMerge(target, source) ==
  [k \in DOMAIN target \cup DOMAIN source |->
     IF k \notin DOMAIN source THEN target[k]
     ELSE IF IsObjectKey(k) /\ k \in DOMAIN target THEN _deepMerge(target[k], source[k])
     ELSE source[k]]

\* plan.status = 'completed'; plan.timestamp = now; implementation.summary = summary
Completed(plan, summary, t) ==
  LET stamped == [k \in DOMAIN plan \cup {"status", "timestamp"} |->
                    IF k = "status" THEN "completed" ELSE IF k = "timestamp" THEN t ELSE plan[k]]
      implementation == IF "implementation" \in DOMAIN plan THEN plan.implementation
                        ELSE [k \in {} |-> Null]
  IN IF summary = Null THEN stamped
     ELSE [k \in DOMAIN stamped \cup {"implementation"} |->
             IF k = "implementation"
             THEN [j \in DOMAIN implementation \cup {"summary"} |->
                     IF j = "summary" THEN summary ELSE implementation[j]]
             ELSE stamped[k]]

\* ------------------------------------------------------------------ yaml.dump, yaml.load
\* new Date().toISOString() at clock reading t
Iso(t) == DateOf(t) \o "T0" \o ToString(t) \o "Z"

\* the type the YAML core schema gives a plain (unquoted) scalar: an empty
\* scalar, null and ~ are null, true and false booleans, digits an integer,
\* a date or an ISO date and time a timestamp, text with ': ' a mapping
Resolve(text) ==
  IF text \in {"", "null", "~"} THEN "null"
  ELSE IF text \in {"true", "false"} THEN "bool"
  ELSE IF text = "12" THEN "int"
  ELSE IF text \in {Iso(t) : t \in 0..MaxClock} \cup {"2024-01-01"} THEN "timestamp"
  ELSE IF text = "a: b" THEN "map"
  ELSE "str"

\* a JavaScript string
Str(text) == [type |-> "str", text |-> text]

\* a dump that writes every string as it is
DumpScalarPlain(value) == [style |-> "plain", text |-> value.text]

\* yaml.dump of a string: quoted when the plain text would load as
\* something else than this string
DumpScalar(value) ==
  [style |-> IF Resolve(value.text) = "str" THEN "plain" ELSE "quoted", text |-> value.text]

\* yaml.load of a scalar: a quoted one is a string, a plain one is resolved
LoadScalar(node) ==
  IF node.style = "quoted" THEN Str(node.text)
  ELSE [type |-> Resolve(node.text), text |-> node.text]

\* the scalars of the plan object createPlan builds (every list of it is
\* empty: dumped as [] and loaded as [])
ScalarKeys ==
  {"id", "timestamp", "status", "title", "description", "problem", "approach", "actual_approach"}

Scalars(plan) ==
  [k \in ScalarKeys |->
     Str(IF k \in {"problem", "approach"} THEN plan.planning[k]
         ELSE IF k = "actual_approach" THEN plan.implementation[k]
         ELSE plan[k])]

\* JSON.stringify of a loaded value: a Date becomes its ISO string
Stringify(value) == IF value.type = "timestamp" THEN Str(value.text) ELSE value

\* value || '' on a loaded value
OrEmptyValue(value) ==
  IF value.type = "null" \/ value.text \in {"", "false"} THEN Str("") ELSE value

\* better-sqlite3 binds strings, numbers and null; a boolean, a Date or an
\* object is a TypeError
Binds(value) == value.type \in {"str", "int", "null"}

\* the upsert of _indexPlan on a loaded plan: the row, or a failure
\* (a value that cannot be bound, title NOT NULL, the CHECK on status)
UpsertLoaded(plan) ==
  LET row == [id |-> plan["id"], timestamp |-> plan["timestamp"], status |-> plan["status"],
              title |-> plan["title"], description |-> OrEmptyValue(plan["description"]),
              content |-> [k \in ScalarKeys |-> Stringify(plan[k])]]
  IN IF /\ \A k \in {"id", "timestamp", "status", "title", "description"} : Binds(row[k])
        /\ row.title.type # "null"
        /\ row.status.type = "null" \/ row.status.text \in ValidStatus
     THEN [row |-> row, ok |-> TRUE]
     ELSE [row |-> row, ok |-> FALSE]

\* ------------------------------------------------------------------ queries
\* getCurrentContext(): read from the tables only (row order and LIMIT left out;
\* every decision of a behaviour is younger than 7 days)
CurrentContext(d) ==
  [activePlans |-> {r.content : r \in {x \in d.plans : x.status = "active"}},
   recentDecisions |-> d.decisions,
   topPatterns |-> {[pattern |-> p.pattern, category |-> p.category,
                     total_usage |-> Cardinality({q \in d.patterns :
                                       q.pattern = p.pattern /\ q.category = p.category})]
                    : p \in d.patterns},
   activeConstraints |-> {c \in d.constraints :
                            /\ c.severity = "error"
                            /\ \E r \in d.plans : r.id = c.plan_id /\ r.status \in {"active", "completed"}}]

NoView == CurrentContext(EmptyDb)

\* constraint.description.includes('no direct database access') on the
\* constraint texts of the model
ForbidsDatabaseAccess(description) == description = "no direct database access"

\* verifyImplementation([file]).violations; accesses: the file can be read
\* and its text includes SELECT or INSERT
Violations(d, path, accesses) ==
  {[file |-> path, constraint |-> j.c.description, plan |-> j.p.title,
    message |-> "Direct database access detected"]
   : j \in {k \in [c : d.constraints, p : d.plans] :
              /\ k.p.id = k.c.plan_id
              /\ \E fp \in d.file_plans : fp.plan_id = k.c.plan_id /\ fp.file_path = path
              /\ k.c.severity = "error"
              /\ ForbidsDatabaseAccess(k.c.description)
              /\ accesses}}

\* the injective lists over a set: the orders its elements can come in
Orders(S) == {o \in [1..Cardinality(S) -> S] : \A i, j \in DOMAIN o : o[i] = o[j] => i = j}

\* the file-history command: plans JOIN file_plans WHERE file_path = path
\* ORDER BY timestamp DESC; the lists the statement can return (rows with
\* equal timestamps come in any order)
FileHistory(d, path) ==
  LET rows == {[id |-> r.id, title |-> r.title, timestamp |-> r.timestamp, status |-> r.status,
                operation |-> fp.operation]
               : r \in d.plans, fp \in {x \in d.file_plans : x.file_path = path}}
      joined == {row \in rows : \E fp \in d.file_plans :
                   fp.file_path = path /\ fp.plan_id = row.id /\ fp.operation = row.operation}
  IN {o \in Orders(joined) : \A i, j \in DOMAIN o : i < j => o[i].timestamp >= o[j].timestamp}

\* the unicode61 tokenizer of FTS5 on the texts of the model: lower-case
\* words, split at everything that is not a letter or a digit
Tokens(text) ==
  CASE text \in {Null, ""} -> {}
    [] text = "A" -> {"a"}
    [] text = "B" -> {"b"}
    [] text = "H" -> {"h"}
    [] text = "by hand" -> {"by", "hand"}
    [] text = "use sqlite" -> {"use", "sqlite"}
    [] OTHER -> {text}

RECURSIVE DecisionTokens(_)
DecisionTokens(ds) ==
  IF ds = <<>> THEN {}
  ELSE Tokens(Head(ds).description) \cup Tokens(Head(ds).rationale) \cup DecisionTokens(Tail(ds))

\* the tokens of column content, JSON.stringify(plan): the keys and the
\* texts of the plan (identifier and timestamp left out)
ContentTokens(plan) ==
  {"id", "timestamp", "status", "title", "description", "planning", "problem", "approach",
   "constraints", "decisions", "implementation", "relationships", "affected_files"}
  \cup Tokens(plan.title) \cup Tokens(plan.description) \cup Tokens(plan.status)
  \cup Tokens(plan.planning.problem) \cup DecisionTokens(plan.planning.decisions)

\* plan_search MATCH query, for a query of one word: a document matches
\* when one of its indexed columns holds the word
DocMatches(doc, query) ==
  query \in Tokens(doc.title) \cup Tokens(doc.description) \cup ContentTokens(doc.content)

\* column LIKE '%query%' on the texts and the words of the model, where a
\* word is part of a text only as one of its words
Like(text, query) == query \in Tokens(text)

\* nothing was searched for
NoFound == [ok |-> TRUE, query |-> Null, plans |-> {}, decisions |-> {}, patterns |-> {}]

\* searchContext(query).  The first statement joins plans with plan_search
\* ON p.id = ps.plan_id: for every document that matches, FTS5 reads column
\* plan_id from the content table plans, which has no such column, and the
\* statement throws ("no such column: T.plan_id"); with no match it returns
\* no row.  Documents of replaced rows are still in the full-text index.
SearchContext(d, query) ==
  IF \E i \in DOMAIN d.plan_search : DocMatches(d.plan_search[i], query)
  THEN [NoFound EXCEPT !.ok = FALSE, !.query = query]
  ELSE [ok |-> TRUE, query |-> query, plans |-> {},
        decisions |-> {r \in d.decisions : Like(r.description, query) \/ Like(r.rationale, query)},
        patterns |-> {r \in d.patterns : Like(r.pattern, query)}]

\* the related command: the edges with planId at either end, and the
\* summaries of the plans at their other ends
Related(d, planId) ==
  LET relationships == {e \in d.plan_edges : e.from_plan = planId \/ e.to_plan = planId}
      relatedIds == {e.to_plan : e \in {x \in relationships : x.from_plan = planId}}
                      \cup {e.from_plan : e \in {x \in relationships : x.to_plan = planId}}
  IN [relationships |-> relationships,
      relatedPlans |-> {[id |-> r.id, title |-> r.title, status |-> r.status,
                         timestamp |-> r.timestamp] : r \in {x \in d.plans : x.id \in relatedIds}}]

\* ------------------------------------------------------------------ state
VARIABLES
  files,      \* .plan/plans: file <id>.yaml -> its content
  db,         \* the tables of .plan/index.db
  handle,     \* this.db: "null" after construction, "open", "closed"
  watcher,    \* this.watcher is set
  events,     \* notifications chokidar has not delivered yet, oldest first
  evCount,    \* notifications raised so far
  calls,      \* the async calls of the manager that are in flight
  now,        \* the clock
  last,       \* what the last step did
  hist,       \* what has happened so far (history, read by the properties only)
  ops,        \* moves of users and of the outside world so far
  active,     \* .plan/.context/active-plan: the text of the pointer file
  merged,     \* a _deepMerge call on its own: its arguments and its result
  trip        \* a new plan on its way from createPlan through its file into the index

vars == <<files, db, handle, watcher, events, evCount, calls, now, last, hist, ops,
          active, merged, trip>>

Slots == 1..MaxCalls

Idle ==
  [kind |-> "idle", pc |-> "idle", id |-> Null, buf |-> NoFile, pending |-> {},
   dbCount |-> 0, init |-> FALSE, startWatcher |-> FALSE, seq |-> 0,
   wrote |-> FALSE, pre |-> EmptyDb]

Call(kind, pc, id, buf) == [Idle EXCEPT !.kind = kind, !.pc = pc, !.id = id, !.buf = buf]

IsIdle(s) == calls[s].kind = "idle"

\* a new call takes the first free slot
Free(s) == IsIdle(s) /\ \A r \in Slots : r < s => ~IsIdle(r)

Step(op, step, result) == [op |-> op, step |-> step, result |-> result]

Commands == {"create", "update", "complete"}

\* the complete command, called with a plan id and without one
CompleteCommands == {"completeCommand", "completeActive"}

\* the calls that rewrite a plan file: updatePlan, completePlan, and
\* completePlan as the complete command calls it
Changing == {"update", "complete"} \cup CompleteCommands

UserCalls == Commands \cup {"initialize", "rebuild"}

NoBroken == [file |-> Null, content |-> NoFile]

\* no create, update or complete call has been made
NoCommand ==
  [op |-> "none", id |-> Null, pre |-> EmptyDb, file |-> NoFile, pointer |-> Null,
   summary |-> Null, at |-> 0]

\* a create, update or complete call starts: what it was called with and
\* what the index, the plan's file and the pointer hold at that moment
Command(op, id, summary) ==
  [op |-> op, id |-> id, pre |-> db, file |-> files[id], pointer |-> active,
   summary |-> summary, at |-> now]

\* no call has read a plan's file while another call was rewriting it
NoRace == [id |-> Null, base |-> NoFile, first |-> NoFile, second |-> NoFile]

\* index.db has not been deleted
NoLost == [db |-> EmptyDb, deleted |-> FALSE]

NoHistory ==
  [rejected |-> FALSE,          \* a call of a user has thrown
   outside |-> FALSE,           \* a file or the index was changed from outside
   indexedUnwritten |-> FALSE,  \* a command wrote to the index before it had written its file
   broken |-> NoBroken,         \* the last file a command wrote and then failed to index
   indexed |-> Null,            \* the id of the plan the last successful _indexPlan call indexed
   applied |-> <<>>,            \* the notifications whose _indexPlan call has succeeded, in that order
   verdict |-> "none",          \* what _validateDatabase returned last: "fresh" or "stale"
   view |-> NoView,             \* what the last query returned
   cmd |-> NoCommand,           \* the last create, update or complete call
   generated |-> {},            \* the identifiers of the plans createPlan has inserted
   regenerated |-> FALSE,       \* createPlan has generated one of these identifiers again
   pointed |-> Null,            \* the argument of the last setActivePlan no clearActivePlan followed
   got |-> Null,                \* what the last getActivePlan returned
   replaced |-> FALSE,          \* a setActivePlan has replaced the pointer to another plan
   watchers |-> 0,              \* the chokidar watchers that were created and not closed
   lost |-> NoLost,             \* the index that was deleted since the last initialize
   restoring |-> NoLost,        \* the index that was deleted before the last initialize started
   stopped |-> FALSE,           \* stopWatcher has closed a running watcher
   logged |-> "none",           \* why the last watcher callback failed: "read" or "index"
   found |-> NoFound,           \* what the last searchContext returned; ok: it returned
   raced |-> NoRace]            \* the last read of a plan's file made while a call was rewriting
                                \* it: the text read (base), the texts the two calls write

\* the step is recorded in last, and in the history h
DidAlso(op, step, result, h) ==
  /\ last' = Step(op, step, result)
  /\ hist' = [h EXCEPT !.rejected = @ \/ (op \in UserCalls /\ result = "throw")]

Did(op, step, result) == DidAlso(op, step, result, hist)

Opened == handle = "open"

\* no pointer file
NoPointer == Null

\* echo <id> > active-plan: the text ends with a newline
Padded(planId) == planId \o "\n"

\* a getActivePlan that returns the text as it is
TrimNothing(text) == text

\* planId.trim() on the texts a pointer file holds
Trim(text) ==
  IF \E planId \in PlanIds : text = Padded(planId)
  THEN CHOOSE planId \in PlanIds : text = Padded(planId)
  ELSE text

\* what getActivePlan returns: the trimmed text, null when readFile rejects
ActivePlan(pointer) == IF pointer = NoPointer THEN Null ELSE Trim(pointer)

\* no plan is followed through its file
NoTrip == [pc |-> "none"]

\* no _deepMerge call is under study
NoMerge == [target |-> JsNull, source |-> JsNull, output |-> JsNull, pc |-> "none"]

\* fs.writeFile / an editor writing file f: chokidar notices when it watches
Notify(f, event) ==
  IF watcher
  THEN /\ events' = Append(events, [path |-> f, event |-> event, seq |-> evCount + 1])
       /\ evCount' = evCount + 1
  ELSE UNCHANGED <<events, evCount>>

WriteFile(f, content) ==
  /\ files' = [files EXCEPT ![f] = content]
  /\ Notify(f, IF files[f].kind = "absent" THEN "added" ELSE "changed")

\* a database that still takes statements after close()
IndexedWhenClosed(plan) == _indexPlan(db, plan, now)

\* a statement on this.db throws when the manager holds no open database
Indexed(plan) == IF Opened THEN _indexPlan(db, plan, now) ELSE [db |-> db, ok |-> FALSE]

Init ==
  /\ files = [f \in PlanIds |-> NoFile]
  /\ db = EmptyDb
  /\ handle = "null"
  /\ watcher = FALSE
  /\ events = <<>>
  /\ evCount = 0
  /\ calls = [s \in Slots |-> Idle]
  /\ now = 0
  /\ last = Step("new", "constructor", "ok")
  /\ hist = NoHistory
  /\ ops = 0
  /\ active = NoPointer
  /\ merged = NoMerge
  /\ trip = NoTrip

\* ------------------------------------------------------------------ createPlan
\* createPlan up to its await: the INSERT INTO plans, then fs.writeFile is started
CreateCall(s, title, description) ==
  LET plan == NewPlan(_generatePlanId(title, now), now, title, OrEmpty(description))
      ins == IF Opened THEN InsertPlan(db, PlanRow(plan)) ELSE [db |-> db, ok |-> FALSE]
  IN /\ Free(s)
     /\ db' = ins.db
     /\ calls' = IF ins.ok
                 THEN [calls EXCEPT ![s] = Call("create", "write", plan.id, YamlDump(plan))]
                 ELSE calls
     /\ DidAlso("create", "insert", IF ins.ok THEN "pending" ELSE "throw",
                [hist EXCEPT !.indexedUnwritten = @ \/ ins.ok,
                             !.cmd = Command("create", plan.id, Null),
                             !.generated = IF ins.ok THEN @ \cup {plan.id} ELSE @,
                             !.regenerated = @ \/ plan.id \in hist.generated])
     /\ UNCHANGED <<files, handle, watcher, events, evCount, now, active, merged, trip>>

\* the file is written and createPlan returns the plan
CreateWrite(s) ==
  /\ calls[s].kind = "create"
  /\ WriteFile(calls[s].id, calls[s].buf)
  /\ calls' = [calls EXCEPT ![s] = Idle]
  /\ Did("create", "write", "ok")
  /\ UNCHANGED <<db, handle, watcher, now, active, merged, trip>>

\* fs.writeFile rejects (no directory, no space): createPlan rejects
CreateWriteFail(s) ==
  /\ calls[s].kind = "create"
  /\ calls' = [calls EXCEPT ![s] = Idle]
  /\ Did("create", "write", "throw")
  /\ UNCHANGED <<files, db, handle, watcher, events, evCount, now, active, merged, trip>>

\* ------------------------------------------------------------------ updatePlan, completePlan
\* a missing file taken for a new plan: the call goes on and writes one
ReadAndChangeOrCreate(s, kind, planId, summary, changed) ==
  /\ Free(s)
  /\ calls' = [calls EXCEPT ![s] =
                 Call(kind, "write", planId,
                      IF YamlLoads(files[planId]) THEN changed
                      ELSE YamlDump(NewPlan(planId, now, "", "")))]
  /\ DidAlso(kind, "read", "pending", [hist EXCEPT !.cmd = Command(kind, planId, summary)])
  /\ UNCHANGED <<files, db, handle, watcher, events, evCount, now, active, merged, trip>>

\* the calls in flight that rewrite the file of a plan
Rewriting(planId) == {r \in Slots : calls[r].kind \in Changing /\ calls[r].id = planId}

\* a call reads the file of a plan and will write changed: the history
\* notes the read when a call that rewrites the file is in flight
Raced(h, planId, changed) ==
  IF Rewriting(planId) = {} THEN h
  ELSE [h EXCEPT !.raced = [id |-> planId, base |-> files[planId],
                            first |-> calls[CHOOSE r \in Rewriting(planId) : TRUE].buf,
                            second |-> changed]]

\* fs.readFile and yaml.load, then the new record is computed and fs.writeFile
\* is started with its dump; kind is the call, changed the
\* text to write (used only when the file was read and parsed)
ReadAndChange(s, kind, planId, summary, changed) ==
  /\ Free(s)
  /\ IF YamlLoads(files[planId])
     THEN /\ calls' = [calls EXCEPT ![s] = Call(kind, "write", planId, changed)]
          /\ DidAlso(kind, "read", "pending",
                     Raced([hist EXCEPT !.cmd = Command(kind, planId, summary)], planId, changed))
     ELSE /\ calls' = calls          \* ENOENT or a YAML error: the call rejects
          /\ DidAlso(kind, "read", "throw",
                     [hist EXCEPT !.cmd = Command(kind, planId, summary)])
  /\ UNCHANGED <<files, db, handle, watcher, events, evCount, now, active, merged, trip>>

UpdateRead(s, planId, updates) ==
  ReadAndChange(s, "update", planId, Null,
                IF YamlLoads(files[planId])
                THEN YamlDump(_deepMerge(YamlLoad(files[planId]), updates))
                ELSE NoFile)

CompleteRead(s, planId, summary) ==
  ReadAndChange(s, "complete", planId, summary,
                IF YamlLoads(files[planId])
                THEN YamlDump(Completed(YamlLoad(files[planId]), summary, now))
                ELSE NoFile)

\* fs.writeFile of updatePlan / completePlan takes effect
ChangeWrite(s) ==
  /\ calls[s].kind \in Changing
  /\ calls[s].pc = "write"
  /\ WriteFile(calls[s].id, calls[s].buf)
  /\ calls' = [calls EXCEPT ![s].pc = "index", ![s].wrote = TRUE]
  /\ Did(calls[s].kind, "write", "pending")
  /\ UNCHANGED <<db, handle, watcher, now, active, merged, trip>>

ChangeWriteFail(s) ==
  /\ calls[s].kind \in Changing
  /\ calls[s].pc = "write"
  /\ calls' = [calls EXCEPT ![s] = Idle]
  /\ Did(calls[s].kind, "write", "throw")
  /\ UNCHANGED <<files, db, handle, watcher, events, evCount, now, active, merged, trip>>

\* the continuation after the write: _indexPlan, then return (or throw)
ChangeIndex(s) ==
  LET r == Indexed(YamlLoad(calls[s].buf))
      command == calls[s].kind \in CompleteCommands
  IN /\ calls[s].kind \in Changing
     /\ calls[s].pc = "index"
     /\ db' = r.db
     /\ calls' = IF command /\ r.ok
                 THEN [calls EXCEPT ![s].pc = "pointer"]     \* the command goes on
                 ELSE [calls EXCEPT ![s] = Idle]
     /\ DidAlso(calls[s].kind, "index",
                IF ~r.ok THEN "throw" ELSE IF command THEN "pending" ELSE "ok",
                [hist EXCEPT !.indexedUnwritten = @ \/ (r.db # db /\ ~calls[s].wrote),
                             !.indexed = IF r.ok THEN YamlLoad(calls[s].buf).id ELSE @,
                             !.broken = IF r.ok THEN @
                                        ELSE [file |-> calls[s].id, content |-> calls[s].buf]])
     /\ UNCHANGED <<files, handle, watcher, events, evCount, now, active, merged, trip>>


\* ------------------------------------------------------------------ reindexPlans
Cleared == IF Opened THEN ClearAll(db) ELSE [db |-> db, ok |-> FALSE]

\* startWatcher(): a second start keeps the running watcher
StartedWatcher(start) == watcher \/ start

\* a startWatcher that calls watch() whether or not a watcher is running
CreatedAlways(running, start) == IF start THEN 1 ELSE 0

\* the watchers a startWatcher call creates: none when this.watcher is set
Created(running, start) == IF start /\ ~running THEN 1 ELSE 0

\* the history h after initialize has or has not called startWatcher
Watching(h, start) == [h EXCEPT !.watchers = @ + Created(watcher, start)]

\* the end of reindexPlans; when initialize awaited it, initialize goes on
\* to start the watcher and returns
Finish(s) ==
  /\ calls' = [calls EXCEPT ![s] = Idle]
  /\ watcher' = StartedWatcher(calls[s].init /\ calls[s].startWatcher)

\* reindexPlans() called directly: the DELETE statements, then glob is started
RebuildCall(s) ==
  LET c == Cleared
  IN /\ Free(s)
     /\ db' = c.db
     /\ calls' = IF c.ok
                 THEN [calls EXCEPT ![s] = [Call("rebuild", "glob", Null, NoFile) EXCEPT !.pre = db]]
                 ELSE calls
     /\ Did("rebuild", "clear", IF c.ok THEN "pending" ELSE "throw")
     /\ UNCHANGED <<files, handle, watcher, events, evCount, now, active, merged, trip>>

\* glob resolves with the *.yaml files present at that moment
RebuildGlob(s) ==
  /\ calls[s].kind = "rebuild"
  /\ calls[s].pc = "glob"
  /\ IF Glob(files) = {}
     THEN /\ Finish(s)
          /\ DidAlso("rebuild", "glob", "ok",
                     Watching(hist, calls[s].init /\ calls[s].startWatcher))
     ELSE /\ calls' = [calls EXCEPT ![s].pc = "read", ![s].pending = Glob(files)]
          /\ Did("rebuild", "glob", "pending")
          /\ UNCHANGED watcher
  /\ UNCHANGED <<files, db, handle, events, evCount, now, active, merged, trip>>

\* fs.readFile of the next file of the list (glob fixes no order)
RebuildRead(s, f) ==
  /\ calls[s].kind = "rebuild"
  /\ calls[s].pc = "read"
  /\ f \in calls[s].pending
  /\ calls' = [calls EXCEPT ![s].pc = "index", ![s].id = f, ![s].buf = files[f]]
  /\ Did("rebuild", "read", "pending")
  /\ UNCHANGED <<files, db, handle, watcher, events, evCount, now, active, merged, trip>>

\* try { yaml.load; _indexPlan } catch { console.error }, then the next file
RebuildIndex(s) ==
  LET loads == YamlLoads(calls[s].buf)
      r == IF loads THEN Indexed(YamlLoad(calls[s].buf)) ELSE [db |-> db, ok |-> FALSE]
      rest == calls[s].pending \ {calls[s].id}
  IN /\ calls[s].kind = "rebuild"
     /\ calls[s].pc = "index"
     /\ db' = r.db
     /\ IF rest = {}
        THEN Finish(s)
        ELSE /\ calls' = [calls EXCEPT ![s].pc = "read", ![s].pending = rest]
             /\ UNCHANGED watcher
     /\ DidAlso("rebuild", "index",
                IF ~r.ok THEN "logged" ELSE IF rest = {} THEN "ok" ELSE "pending",
                [Watching(hist, rest = {} /\ calls[s].init /\ calls[s].startWatcher)
                   EXCEPT !.indexed = IF r.ok THEN YamlLoad(calls[s].buf).id ELSE @])
     /\ UNCHANGED <<files, handle, events, evCount, now, active, merged, trip>>

\* ------------------------------------------------------------------ initialize
\* needsRebuild is known: reindexPlans is entered in the same segment, or
\* initialize starts the watcher and returns
AfterValidate(s, needsRebuild, start, step) ==
  LET c == Cleared
      h == [hist EXCEPT !.verdict = IF needsRebuild THEN "stale" ELSE "fresh"]
  IN IF needsRebuild
     THEN /\ db' = c.db
          /\ calls' = IF c.ok
                      THEN [calls EXCEPT ![s] = [Call("rebuild", "glob", Null, NoFile)
                                                   EXCEPT !.init = TRUE, !.startWatcher = start,
                                                          !.pre = db]]
                      ELSE [calls EXCEPT ![s] = Idle]
          /\ DidAlso("initialize", step, IF c.ok THEN "pending" ELSE "throw", h)
          /\ UNCHANGED watcher
     ELSE /\ calls' = [calls EXCEPT ![s] = Idle]
          /\ watcher' = StartedWatcher(start)
          /\ DidAlso("initialize", step, "ok", Watching(h, start))
          /\ UNCHANGED db

\* initialize(options) up to its first await: the database is opened; with
\* forceRebuild there is no await before reindexPlans, else _validateDatabase
\* counts the Plan rows and starts glob
InitializeCall(s, forceRebuild, start) ==
  /\ Free(s)
  /\ handle # "open"
  /\ handle' = "open"
  /\ IF forceRebuild
     THEN LET c == ClearAll(db)
          IN /\ db' = c.db
             /\ calls' = IF c.ok
                         THEN [calls EXCEPT ![s] = [Call("rebuild", "glob", Null, NoFile)
                                                      EXCEPT !.init = TRUE, !.startWatcher = start,
                                                             !.pre = db]]
                         ELSE calls
             /\ DidAlso("initialize", "open", IF c.ok THEN "pending" ELSE "throw",
                        [hist EXCEPT !.restoring = hist.lost, !.lost = NoLost])
     ELSE /\ calls' = [calls EXCEPT ![s] = [Call("initialize", "validate", Null, NoFile)
                                              EXCEPT !.init = TRUE, !.startWatcher = start,
                                                     !.dbCount = Cardinality(db.plans)]]
          /\ DidAlso("initialize", "open", "pending",
                     [hist EXCEPT !.restoring = hist.lost, !.lost = NoLost])
          /\ UNCHANGED db
  /\ UNCHANGED <<files, watcher, events, evCount, now, active, merged, trip>>

\* a staleness probe that only notices missing rows
NeedsRebuildWhenFewer(dbCount, planFiles, failed) == failed \/ dbCount < Cardinality(planFiles)

\* what _validateDatabase returns once glob has resolved; failed: the
\* try block threw
NeedsRebuild(dbCount, planFiles, failed) == failed \/ dbCount # Cardinality(planFiles)

\* an initialize that rebuilds only when the probe itself failed
InitializeValidatedOnFailure(s, failed) ==
  /\ calls[s].kind = "initialize"
  /\ AfterValidate(s, failed, calls[s].startWatcher, IF failed THEN "catch" ELSE "validate")
  /\ UNCHANGED <<files, handle, events, evCount, now, active, merged, trip>>

\* the continuation of _validateDatabase and of initialize after it
InitializeValidated(s, failed) ==
  /\ calls[s].kind = "initialize"
  /\ AfterValidate(s, NeedsRebuild(calls[s].dbCount, Glob(files), failed),
                   calls[s].startWatcher, IF failed THEN "catch" ELSE "validate")
  /\ UNCHANGED <<files, handle, events, evCount, now, active, merged, trip>>

\* ------------------------------------------------------------------ watcher
StartWatcher ==
  /\ watcher' = StartedWatcher(TRUE)
  /\ DidAlso("startWatcher", "call", IF watcher THEN "noop" ELSE "ok", Watching(hist, TRUE))
  /\ UNCHANGED <<files, db, handle, events, evCount, calls, now, active, merged, trip>>

\* the history h after stopWatcher: this.watcher, when set, is closed
Stopped(h) == [h EXCEPT !.watchers = IF watcher THEN @ - 1 ELSE @,
                        !.stopped = @ \/ watcher]

\* stopWatcher(): the closed watcher delivers nothing more
StopWatcher ==
  /\ watcher' = FALSE
  /\ events' = <<>>
  /\ DidAlso("stopWatcher", "call", IF watcher THEN "ok" ELSE "noop", Stopped(hist))
  /\ UNCHANGED <<files, db, handle, evCount, calls, now, active, merged, trip>>

\* close(): stopWatcher(), then this.db.close()
Close ==
  /\ watcher' = FALSE
  /\ events' = <<>>
  /\ handle' = IF handle = "open" THEN "closed" ELSE handle
  /\ DidAlso("close", "call", "ok", Stopped(hist))
  /\ UNCHANGED <<files, db, evCount, calls, now, active, merged, trip>>

\* someone edits, adds or replaces a plan file outside the manager
ExternalWrite(f, content) ==
  /\ files[f] # content
  /\ WriteFile(f, content)
  /\ DidAlso("external", "write", "ok", [hist EXCEPT !.outside = TRUE])
  /\ UNCHANGED <<db, handle, watcher, calls, now, active, merged, trip>>

ExternalRemove(f) ==
  /\ files[f].kind # "absent"
  /\ files' = [files EXCEPT ![f] = NoFile]
  /\ Notify(f, "removed")
  /\ DidAlso("external", "remove", "ok", [hist EXCEPT !.outside = TRUE])
  /\ UNCHANGED <<db, handle, watcher, calls, now, active, merged, trip>>

\* chokidar delivers the oldest notification: _handlePlanChange(path, event)
\* runs up to its await of fs.readFile (a removal is only logged)
Deliver(s) ==
  /\ Free(s)
  /\ events # <<>>
  /\ events' = Tail(events)
  /\ IF Head(events).event = "removed"
     THEN /\ calls' = calls
          /\ Did("handler", "removed", "ok")
     ELSE /\ calls' = [calls EXCEPT ![s] = [Call("handler", "read", Head(events).path, NoFile)
                                              EXCEPT !.seq = Head(events).seq]]
          /\ Did("handler", "deliver", "pending")
  /\ UNCHANGED <<files, db, handle, watcher, evCount, now, active, merged, trip>>

\* fs.readFile of the handler reads the file as it is now
HandlerRead(s) ==
  /\ calls[s].kind = "handler"
  /\ calls[s].pc = "read"
  /\ calls' = [calls EXCEPT ![s].pc = "index", ![s].buf = files[calls[s].id]]
  /\ Did("handler", "read", "pending")
  /\ UNCHANGED <<files, db, handle, watcher, events, evCount, now, active, merged, trip>>

\* a callback without the try block: the rejection is handled by nobody and
\* ends the process, and the watcher with it
HandlerIndexUncaught(s) ==
  LET loads == YamlLoads(calls[s].buf)
      r == IF loads THEN Indexed(YamlLoad(calls[s].buf)) ELSE [db |-> db, ok |-> FALSE]
  IN /\ calls[s].kind = "handler"
     /\ calls[s].pc = "index"
     /\ db' = r.db
     /\ calls' = [calls EXCEPT ![s] = Idle]
     /\ watcher' = (watcher /\ r.ok)
     /\ events' = IF r.ok THEN events ELSE <<>>
     /\ DidAlso("handler", "index", IF r.ok THEN "ok" ELSE "throw",
                [hist EXCEPT !.applied = IF r.ok THEN Append(@, calls[s].seq) ELSE @,
                             !.indexed = IF r.ok THEN YamlLoad(calls[s].buf).id ELSE @,
                             !.logged = IF r.ok THEN @ ELSE IF loads THEN "index" ELSE "read"])
     /\ UNCHANGED <<files, handle, evCount, now, active, merged, trip>>

\* try { yaml.load; _indexPlan } catch { console.error }
HandlerIndex(s) ==
  LET loads == YamlLoads(calls[s].buf)
      r == IF loads THEN Indexed(YamlLoad(calls[s].buf)) ELSE [db |-> db, ok |-> FALSE]
  IN /\ calls[s].kind = "handler"
     /\ calls[s].pc = "index"
     /\ db' = r.db
     /\ calls' = [calls EXCEPT ![s] = Idle]
     /\ DidAlso("handler", "index", IF r.ok THEN "ok" ELSE "logged",
                [hist EXCEPT !.applied = IF r.ok THEN Append(@, calls[s].seq) ELSE @,
                             !.indexed = IF r.ok THEN YamlLoad(calls[s].buf).id ELSE @,
                             !.logged = IF r.ok THEN @ ELSE IF loads THEN "index" ELSE "read"])
     /\ UNCHANGED <<files, handle, watcher, events, evCount, now, active, merged, trip>>

\* ------------------------------------------------------------------ clock
Tick ==
  /\ now < MaxClock
  /\ now' = now + 1
  /\ Did("clock", "tick", "ok")
  /\ UNCHANGED <<files, db, handle, watcher, events, evCount, calls, active, merged, trip>>


\* someone deletes .plan/index.db while no manager has it open
ExternalDeleteIndex ==
  /\ handle # "open"
  /\ db # EmptyDb
  /\ db' = EmptyDb
  /\ DidAlso("external", "deleteIndex", "ok",
             [hist EXCEPT !.outside = TRUE, !.lost = [db |-> db, deleted |-> TRUE]])
  /\ UNCHANGED <<files, handle, watcher, events, evCount, calls, now, active, merged, trip>>

\* ------------------------------------------------------------------ a query
Query ==
  /\ DidAlso("query", "getCurrentContext", IF Opened THEN "ok" ELSE "throw",
             IF Opened THEN [hist EXCEPT !.view = CurrentContext(db)] ELSE hist)
  /\ UNCHANGED <<files, db, handle, watcher, events, evCount, calls, now, active, merged, trip>>

\* searchContext(query) of a manager; without an open database it throws
Search(query) ==
  LET r == IF Opened THEN SearchContext(db, query) ELSE [NoFound EXCEPT !.ok = FALSE, !.query = query]
  IN /\ DidAlso("query", "searchContext", IF r.ok THEN "ok" ELSE "throw", [hist EXCEPT !.found = r])
     /\ UNCHANGED <<files, db, handle, watcher, events, evCount, calls, now, active, merged, trip>>

\* ------------------------------------------------------------------ active pointer
\* setActivePlan(planId): fs.writeFile of the pointer file succeeds
SetActivePlan(planId) ==
  /\ active' = planId
  /\ DidAlso("setActivePlan", "write", "ok",
             [hist EXCEPT !.pointed = planId,
                          !.replaced = @ \/ ActivePlan(active) \notin {Null, planId}])
  /\ UNCHANGED <<files, db, handle, watcher, events, evCount, calls, now, merged, trip>>

\* fs.writeFile rejects (.plan/.context is missing): setActivePlan rejects
SetActivePlanFail(planId) ==
  /\ Did("setActivePlan", "write", "throw")
  /\ UNCHANGED <<files, db, handle, watcher, events, evCount, calls, now, active, merged, trip>>

\* getActivePlan(): the trimmed text of the file, null when it cannot be read
GetActivePlan ==
  /\ DidAlso("getActivePlan", "read", "ok", [hist EXCEPT !.got = ActivePlan(active)])
  /\ UNCHANGED <<files, db, handle, watcher, events, evCount, calls, now, active, merged, trip>>

\* a clearActivePlan that unlinks the file of the plan with the pointer
ClearActivePlanAndFile ==
  /\ active' = NoPointer
  /\ files' = [f \in PlanIds |-> IF f = ActivePlan(active) THEN NoFile ELSE files[f]]
  /\ DidAlso("clearActivePlan", "unlink", IF active = NoPointer THEN "ignored" ELSE "ok",
             [hist EXCEPT !.pointed = Null])
  /\ UNCHANGED <<db, handle, watcher, events, evCount, calls, now, merged, trip>>

\* clearActivePlan(): fs.unlink; a missing file is ignored
ClearActivePlan ==
  /\ active' = NoPointer
  /\ DidAlso("clearActivePlan", "unlink", IF active = NoPointer THEN "ignored" ELSE "ok",
             [hist EXCEPT !.pointed = Null])
  /\ UNCHANGED <<files, db, handle, watcher, events, evCount, calls, now, merged, trip>>

\* someone writes the pointer file by hand, with the newline an editor or echo adds
ExternalPointerWrite(planId) ==
  /\ active' = Padded(planId)
  /\ DidAlso("external", "pointer", "ok", [hist EXCEPT !.pointed = planId])
  /\ UNCHANGED <<files, db, handle, watcher, events, evCount, calls, now, merged, trip>>

\* ------------------------------------------------------------------ commands of bin/dotplan.js
\* dotplan create <title>: the command makes a PlanManager and calls
\* createPlan on it without initialize: this.db is null, this.db.prepare
\* throws after the id was generated, the catch block reports the failure
\* and exits; setActivePlan is not reached
CreateCommand(title, description) ==
  LET plan == NewPlan(_generatePlanId(title, now), now, title, OrEmpty(description))
  IN /\ DidAlso("createCommand", "insert", "throw",
                [hist EXCEPT !.cmd = Command("createCommand", plan.id, Null)])
     /\ UNCHANGED <<files, db, handle, watcher, events, evCount, calls, now, active, merged, trip>>

\* dotplan complete [planId] after its initialize: the id is the argument or
\* the active plan; without either the command reports an error and exits,
\* else completePlan(id, summary) is called
CompleteCommandCall(s, planId, summary) ==
  LET id == IF planId = Null THEN ActivePlan(active) ELSE planId
      kind == IF planId = Null THEN "completeActive" ELSE "completeCommand"
  IN /\ Opened
     /\ IF id = Null
        THEN /\ Free(s)
             /\ Did(kind, "resolve", "throw")
             /\ UNCHANGED <<files, db, handle, watcher, events, evCount, calls, now,
                            active, merged, trip>>
        ELSE ReadAndChange(s, kind, id, summary,
                           IF YamlLoads(files[id])
                           THEN YamlDump(Completed(YamlLoad(files[id]), summary, now))
                           ELSE NoFile)

\* a command that clears the pointer whatever it designates
PointerAlwaysCleared(pointer, id) == NoPointer

\* the pointer after the complete command has completed plan id
PointerAfterComplete(pointer, id) == IF ActivePlan(pointer) = id THEN NoPointer ELSE pointer

\* ... getActivePlan(); if (activePlan === id) clearActivePlan(); manager.close()
CompleteCommandPointer(s) ==
  /\ calls[s].kind \in CompleteCommands
  /\ calls[s].pc = "pointer"
  /\ active' = PointerAfterComplete(active, calls[s].id)
  /\ handle' = "closed"
  /\ calls' = [calls EXCEPT ![s] = Idle]
  /\ DidAlso(calls[s].kind, "clear", "ok",
             [hist EXCEPT !.pointed = IF active' = NoPointer THEN Null ELSE @,
                          !.got = ActivePlan(active)])
  /\ UNCHANGED <<files, db, watcher, events, evCount, now, merged, trip>>

\* ------------------------------------------------------------------ inputs
Descriptions == {"x"}

Updates ==
  {[status |-> "active"],
   [status |-> "bogus"],
   [id |-> IdB],
   [affected_files |-> <<"f", "f">>],
   [planning |-> [decisions |-> <<Decision1>>]]}

Summaries == {"Shipped", Null}      \* Null: complete without --summary

\* a plan file written by hand; the first plan enables the second
HandPlan(id) ==
  [NewPlan(id, 0, "H", "by hand") EXCEPT
     !.status = "active",
     !.relationships.enables = IF id = IdA THEN <<IdB>> ELSE <<>>,
     !.planning.decisions = <<Decision1>>,
     !.planning.constraints = <<"no direct database access">>,
     !.implementation.patterns_established = <<"repository">>,
     !.affected_files = <<"f">>]

\* a plan file that parses but names an affected file twice
TwiceAffected == [HandPlan(IdA) EXCEPT !.affected_files = <<"f", "f">>]

EditContents == {Garbage, YamlDump(TwiceAffected)} \cup {YamlDump(HandPlan(id)) : id \in PlanIds}

\* ------------------------------------------------------------------ specification
\* a call in flight goes on
Resume(s) ==
  \/ CreateWrite(s)
  \/ CreateWriteFail(s)
  \/ ChangeWrite(s)
  \/ ChangeWriteFail(s)
  \/ ChangeIndex(s)
  \/ RebuildGlob(s)
  \/ \E f \in PlanIds : RebuildRead(s, f)
  \/ RebuildIndex(s)
  \/ \E failed \in BOOLEAN : InitializeValidated(s, failed)
  \/ CompleteCommandPointer(s)

\* a watcher callback in flight goes on
Handle(s) ==
  \/ HandlerRead(s)
  \/ HandlerIndex(s)

\* no call of a user is in flight (watcher callbacks are awaited by nobody)
Quiet == \A s \in Slots : calls[s].kind \in {"idle", "handler"}

\* a move of a user or of the outside world (an edit, the clock), and a step
\* the program takes by itself
Move(A) == ops < MaxOps /\ A /\ ops' = ops + 1

Auto(A) == A /\ UNCHANGED ops

\* the commands of the command line, each awaited before the next one, on a
\* directory that is also edited by hand; no watcher
SeqCall(s) ==
  \/ \E title \in Titles, description \in Descriptions : CreateCall(s, title, description)
  \/ \E planId \in PlanIds, updates \in Updates : UpdateRead(s, planId, updates)
  \/ \E planId \in PlanIds, summary \in Summaries : CompleteRead(s, planId, summary)
  \/ RebuildCall(s)
  \/ \E forceRebuild \in BOOLEAN : InitializeCall(s, forceRebuild, FALSE)

NextSeq ==
  \/ Move(Quiet /\ \E s \in Slots : SeqCall(s))
  \/ Move(Quiet /\ \E f \in PlanIds, content \in EditContents : ExternalWrite(f, content))
  \/ Move(Quiet /\ \E f \in PlanIds : ExternalRemove(f))
  \/ Move(Quiet /\ ExternalDeleteIndex)
  \/ Auto(Quiet /\ Close)
  \/ Auto(\E s \in Slots : Resume(s))
  \/ Move(Tick)

SpecSeq == Init /\ [][NextSeq]_vars

\* a plan file whose lists were emptied by hand, and one with a status the
\* plans table does not accept
Emptied ==
  [HandPlan(IdA) EXCEPT !.planning.decisions = <<>>, !.planning.constraints = <<>>,
                        !.implementation.patterns_established = <<>>, !.affected_files = <<>>]

Unaccepted == [HandPlan(IdB) EXCEPT !.status = "bogus"]

IndexedContents(f) ==
  IF f = IdA THEN {Garbage, YamlDump(HandPlan(f)), YamlDump(TwiceAffected), YamlDump(Emptied)}
  ELSE {YamlDump(HandPlan(f)), YamlDump(Unaccepted)}

\* the writers of the index: initialize, reindexPlans, createPlan and
\* updatePlan, each awaited, on a directory that is also edited by hand
NextIndex ==
  \/ Move(Quiet /\ \E s \in Slots, forceRebuild \in BOOLEAN : InitializeCall(s, forceRebuild, FALSE))
  \/ Move(Quiet /\ \E s \in Slots : RebuildCall(s))
  \/ Move(Quiet /\ \E s \in Slots, title \in Titles : CreateCall(s, title, "x"))
  \/ Move(Quiet /\ \E s \in Slots, planId \in PlanIds, updates \in Updates : UpdateRead(s, planId, updates))
  \/ Move(Quiet /\ \E f \in PlanIds : \E content \in IndexedContents(f) : ExternalWrite(f, content))
  \/ Auto(\E s \in Slots : Resume(s))

SpecIndex == Init /\ [][NextIndex]_vars

\* updates of one plan that touch different fields
DisjointUpdates == {[status |-> "active"], [affected_files |-> <<"f">>]}

\* a session whose updatePlan calls are not awaited: a call can be started
\* while another one is suspended at its readFile or writeFile
NextRace ==
  \/ Move(Quiet /\ \E s \in Slots : InitializeCall(s, FALSE, FALSE))
  \/ Move(Quiet /\ \E s \in Slots, title \in Titles : CreateCall(s, title, "x"))
  \/ Move(\E s \in Slots, planId \in PlanIds, updates \in DisjointUpdates : UpdateRead(s, planId, updates))
  \/ Auto(\E s \in Slots : Resume(s))

SpecRace == Init /\ [][NextRace]_vars

\* a watched directory whose files are written by hand; a file can declare
\* the id of the other plan
NextAgree ==
  \/ Move(Quiet /\ \E s \in Slots : InitializeCall(s, FALSE, TRUE))
  \/ Move(Quiet /\ \E f \in PlanIds, id \in PlanIds : ExternalWrite(f, YamlDump(HandPlan(id))))
  \/ Auto(\E s \in Slots : Deliver(s))
  \/ Auto(\E s \in Slots : Handle(s))
  \/ Auto(\E s \in Slots : Resume(s))

SpecAgree == Init /\ [][NextAgree]_vars

\* the words plans are described with and searched for
SearchDescriptions == {"alpha", "beta"}

Terms == {"alpha", "sqlite", "zzz"}

\* a session that creates plans, records a decision and searches
NextSearch ==
  \/ Move(Quiet /\ \E s \in Slots : InitializeCall(s, FALSE, FALSE))
  \/ Move(Quiet /\ \E s \in Slots, title \in Titles, description \in SearchDescriptions :
                    CreateCall(s, title, description))
  \/ Move(Quiet /\ \E s \in Slots, planId \in PlanIds :
                    UpdateRead(s, planId, [planning |-> [decisions |-> <<Decision1>>]]))
  \/ Move(Quiet /\ \E query \in Terms : Search(query))
  \/ Auto(\E s \in Slots : Resume(s))

SpecSearch == Init /\ [][NextSearch]_vars

\* the commands and the pointer: calls of a session and commands of the
\* command line, each awaited before the next one, and the pointer file
\* written by hand
NextCli ==
  \/ Move(Quiet /\ \E s \in Slots : SeqCall(s))
  \/ Move(Quiet /\ \E planId \in PlanIds : SetActivePlan(planId))
  \/ Move(Quiet /\ \E planId \in PlanIds : SetActivePlanFail(planId))
  \/ Move(Quiet /\ ClearActivePlan)
  \/ Move(Quiet /\ \E planId \in PlanIds : ExternalPointerWrite(planId))
  \/ Move(Quiet /\ \E title \in Titles, description \in Descriptions :
                      CreateCommand(title, description))
  \/ Move(Quiet /\ \E s \in Slots, planId \in PlanIds \cup {Null}, summary \in Summaries :
                      CompleteCommandCall(s, planId, summary))
  \/ Auto(Quiet /\ GetActivePlan)
  \/ Auto(Quiet /\ Close)
  \/ Auto(\E s \in Slots : Resume(s))

SpecCli == Init /\ [][NextCli]_vars

\* the index is deleted between two runs of the command line: files are
\* written by hand, initialize is awaited, the manager is closed
NextRestore ==
  \/ Move(Quiet /\ \E s \in Slots, forceRebuild \in BOOLEAN : InitializeCall(s, forceRebuild, FALSE))
  \/ Move(Quiet /\ \E f \in PlanIds, content \in EditContents : ExternalWrite(f, content))
  \/ Move(Quiet /\ \E f \in PlanIds : ExternalRemove(f))
  \/ Move(Quiet /\ ExternalDeleteIndex)
  \/ Auto(Quiet /\ Close)
  \/ Auto(\E s \in Slots : Resume(s))

SpecRestore == Init /\ [][NextRestore]_vars

\* what is written by hand into file f while the watcher runs: text that
\* does not parse, a plan, a plan that the index rejects half-way
WatchedContents(f) ==
  IF f = IdA THEN {Garbage, YamlDump(HandPlan(f)), YamlDump(TwiceAffected)}
  ELSE {YamlDump(HandPlan(f))}

\* a session with the watcher: initialize is awaited, then files are edited
\* by hand, callbacks run, the watcher is started and stopped and the
\* manager is closed, at any time
NextWatch ==
  \/ Move(Quiet /\ \E s \in Slots, start \in BOOLEAN : InitializeCall(s, FALSE, start))
  \/ Move(Quiet /\ \E f \in PlanIds : \E content \in WatchedContents(f) : ExternalWrite(f, content))
  \/ Move(Quiet /\ \E f \in PlanIds : ExternalRemove(f))
  \/ Move(Quiet /\ StartWatcher)
  \/ Move(Quiet /\ StopWatcher)
  \/ Move(Quiet /\ Close)
  \/ Auto(\E s \in Slots : Deliver(s))
  \/ Auto(\E s \in Slots : Handle(s))
  \/ Auto(\E s \in Slots : Resume(s))

SpecWatch == Init /\ [][NextWatch]_vars

\* every kind of operation in one session with the watcher running: the
\* calls are awaited, the callbacks the calls' own writes cause run beside
\* them, and nothing is edited by hand
NextFrame ==
  \/ Move(Quiet /\ \E s \in Slots, forceRebuild \in BOOLEAN : InitializeCall(s, forceRebuild, TRUE))
  \/ Move(Quiet /\ \E s \in Slots, description \in Descriptions : CreateCall(s, "A", description))
  \/ Move(Quiet /\ \E s \in Slots : UpdateRead(s, IdA, [status |-> "active"]))
  \/ Move(Quiet /\ \E s \in Slots : CompleteRead(s, IdA, "Shipped"))
  \/ Move(Quiet /\ SetActivePlan(IdA))
  \/ Move(Quiet /\ ClearActivePlan)
  \/ Move(Quiet /\ GetActivePlan)
  \/ Move(Quiet /\ Query)
  \/ Auto(\E s \in Slots : Deliver(s))
  \/ Auto(\E s \in Slots : Handle(s))
  \/ Auto(\E s \in Slots : Resume(s))

SpecFrame == Init /\ [][NextFrame]_vars

\* no rebuild is in flight
NoRebuild == \A s \in Slots : calls[s].kind \notin {"initialize", "rebuild"}

\* a long-lived session: initialize, rebuilds, the watcher and queries, called
\* at any time (not awaited), on a directory that is edited by hand
Next ==
  \/ Move(\E s \in Slots, forceRebuild \in BOOLEAN, start \in BOOLEAN :
            InitializeCall(s, forceRebuild, start))
  \/ Move(\E s \in Slots : RebuildCall(s))
  \/ Move(NoRebuild /\ \E f \in PlanIds : \E content \in {Garbage, YamlDump(HandPlan(f))} :
            ExternalWrite(f, content))
  \/ Move(NoRebuild /\ \E f \in PlanIds : ExternalRemove(f))
  \/ Move(StartWatcher)
  \/ Move(StopWatcher)
  \/ Auto(Query)
  \/ Auto(Close)
  \/ Auto(\E s \in Slots : Deliver(s))
  \/ Auto(\E s \in Slots : Handle(s))
  \/ Auto(\E s \in Slots : Resume(s))

Spec == Init /\ [][Next]_vars

\* ------------------------------------------------------------------ _deepMerge on its own
MergeKeys == {"a", "b"}

\* a null, a string and a list
Leaves == {JsNull, JsString(<<"s">>), JsList(<<JsString(<<"x">>)>>)}

\* the objects with keys among K and values among V
Objects(K, V) == {JsObject(props) : props \in UNION {[D -> V] : D \in SUBSET K}}

\* what a key of a record may hold: a leaf or a mapping of leaves
FieldValues == Leaves \cup Objects({"b"}, Leaves)

\* the current record (yaml.load of the file) and the updates (JSON.parse of --set)
Records == Objects(MergeKeys, FieldValues)

InitMerge ==
  /\ files = [f \in PlanIds |-> NoFile]
  /\ db = EmptyDb
  /\ handle = "null"
  /\ watcher = FALSE
  /\ events = <<>>
  /\ evCount = 0
  /\ calls = [s \in Slots |-> Idle]
  /\ now = 0
  /\ last = Step("new", "constructor", "ok")
  /\ hist = NoHistory
  /\ ops = 0
  /\ active = NoPointer
  /\ trip = NoTrip
  /\ \E target \in Records, source \in Records :
       merged = [target |-> target, source |-> source, output |-> JsNull, pc |-> "call"]

\* const updatedPlan = this._deepMerge(plan, updates)
MergeStep ==
  /\ merged.pc = "call"
  /\ merged' = [merged EXCEPT !.output = deepMergeValue(merged.target, merged.source),
                              !.pc = "done"]
  /\ last' = Step("update", "merge", "ok")
  /\ UNCHANGED <<files, db, handle, watcher, events, evCount, calls, now, hist, ops, active, trip>>

NextMerge == MergeStep

SpecMerge == InitMerge /\ [][NextMerge]_vars

\* ------------------------------------------------------------------ a new plan through its file
\* what --description gives: nothing, an empty text, and texts that are
\* YAML for something else than a string
TripDescriptions == {Null, "", "x", "true", "null", "12", "2024-01-01", "a: b"}

InitRound ==
  /\ files = [f \in PlanIds |-> NoFile]
  /\ db = EmptyDb
  /\ handle = "null"
  /\ watcher = FALSE
  /\ events = <<>>
  /\ evCount = 0
  /\ calls = [s \in Slots |-> Idle]
  /\ now \in 0..MaxClock
  /\ last = Step("new", "constructor", "ok")
  /\ hist = NoHistory
  /\ ops = 0
  /\ active = NoPointer
  /\ merged = NoMerge
  /\ \E title \in Titles, description \in TripDescriptions :
       trip = [pc |-> "call", title |-> title, description |-> description]

\* createPlan builds the plan object it will return
TripCreate ==
  /\ trip.pc = "call"
  /\ trip' = [pc |-> "created", description |-> trip.description,
              plan |-> Scalars(NewPlan(_generatePlanId(trip.title, now), Iso(now), trip.title,
                                       OrEmpty(trip.description)))]
  /\ last' = Step("create", "plan", "ok")
  /\ UNCHANGED <<files, db, handle, watcher, events, evCount, calls, now, hist, ops, active, merged>>

\* yaml.dump(plan, { indent: 2 }) and fs.writeFile
TripDump ==
  /\ trip.pc = "created"
  /\ trip' = [trip EXCEPT !.pc = "written"] @@ [text |-> [k \in ScalarKeys |-> DumpScalar(trip.plan[k])]]
  /\ last' = Step("create", "dump", "ok")
  /\ UNCHANGED <<files, db, handle, watcher, events, evCount, calls, now, hist, ops, active, merged>>

\* fs.readFile and yaml.load of that file
TripLoad ==
  /\ trip.pc = "written"
  /\ trip' = [trip EXCEPT !.pc = "read"] @@ [loaded |-> [k \in ScalarKeys |-> LoadScalar(trip.text[k])]]
  /\ last' = Step("reindexOne", "load", "ok")
  /\ UNCHANGED <<files, db, handle, watcher, events, evCount, calls, now, hist, ops, active, merged>>

\* _indexPlan of the loaded plan: the Plan row it writes
TripIndex ==
  LET up == UpsertLoaded(trip.loaded)
  IN /\ trip.pc = "read"
     /\ trip' = [trip EXCEPT !.pc = "indexed"] @@ up
     /\ last' = Step("reindexOne", "index", IF up.ok THEN "ok" ELSE "throw")
     /\ UNCHANGED <<files, db, handle, watcher, events, evCount, calls, now, hist, ops, active, merged>>

NextRound ==
  \/ TripCreate
  \/ TripDump
  \/ TripLoad
  \/ TripIndex

SpecRound == InitRound /\ [][NextRound]_vars

\* ------------------------------------------------------------------ properties
\* a rebuild (reindexPlans, called directly or by initialize) has just ended,
\* by returning or by throwing, on an open database
RebuildEnded ==
  /\ Opened
  /\ \/ last.op = "rebuild" /\ last.result \in {"ok", "throw"}
     \/ last.op = "initialize" /\ last.result = "throw"

\* C1: in every execution of create, update and complete the plan's file is
\* written before the index is written for that plan: no command has touched
\* the index while its own file write was still to come.
C1_FileBeforeIndex == ~hist.indexedUnwritten

\* C2: when only create/update/complete calls that returned successfully have
\* run (nothing was edited from outside, nothing is in flight), the Plan row
\* of every indexed plan has the content of that plan's file.
C2_IndexMatchesFiles ==
  (/\ \A s \in Slots : IsIdle(s)
   /\ events = <<>>
   /\ ~hist.rejected
   /\ ~hist.outside)
  => \A r \in db.plans : files[r.id].kind = "yaml" /\ files[r.id].doc = r.content

\* C3: _indexPlan is atomic: a call that fails (it throws, or its error is
\* logged by the rebuild) leaves every table as it was before the call.
C3_IndexPlanAtomic ==
  [][(last'.step = "index" /\ last'.result \in {"throw", "logged"}) => db' = db]_vars

\* C4: idempotence: right after a successful _indexPlan(p), a second call
\* with the same record leaves the index, row for row, as the first call
\* left it.
C4_ReindexIdempotent ==
  (Opened /\ last.step = "index" /\ last.result \in {"ok", "pending"})
  => _indexPlan(db, RowOf(db, hist.indexed).content, now).db = db

RECURSIVE IndexEach(_, _, _, _)
\* reindexOne once per file, in the given order
IndexEach(d, fs, order, t) ==
  IF order = <<>> THEN d
  ELSE IF ~YamlLoads(fs[Head(order)]) THEN IndexEach(d, fs, Tail(order), t)
  ELSE IndexEach(_indexPlan(d, YamlLoad(fs[Head(order)]), t).db, fs, Tail(order), t)

\* every file parses and is accepted by the index
AllValid(fs) ==
  \A f \in Glob(fs) : YamlLoads(fs[f]) /\ _indexPlan(EmptyDb, YamlLoad(fs[f]), 0).ok

\* rows without the keys the database assigns (AUTOINCREMENT id, CURRENT_TIMESTAMP)
Content(rows) == {[k \in DOMAIN r \ {"id", "timestamp"} |-> r[k]] : r \in rows}

Rows(d) ==
  [plans |-> d.plans, file_plans |-> d.file_plans, decisions |-> Content(d.decisions),
   patterns |-> Content(d.patterns), constraints |-> Content(d.constraints)]

\* C5: rebuild equivalence: over valid files, a rebuild that has ended leaves
\* the Plan, Decision, Pattern, Constraint and FileAssociation rows that
\* reindexOne once per file leaves on an empty index, whatever the order
\* (rows compared up to the keys the database assigns).
C5_RebuildEquivalence ==
  (RebuildEnded /\ AllValid(files))
  => \A order \in Orders(Glob(files)) : Rows(db) = Rows(IndexEach(EmptyDb, files, order, now))

\* C9: staleness detection: _validateDatabase reports rebuild-needed exactly
\* when the number of Plan rows differs from the number of *.yaml files, or
\* when the probe itself failed; equal counts are reported fresh whatever
\* the rows and the files hold.
C9_ValidateComparesCounts ==
  (last.op = "initialize" /\ last.step \in {"validate", "catch"})
  => /\ hist.verdict \in {"fresh", "stale"}
     /\ hist.verdict = "stale" <=>
          (last.step = "catch" \/ Cardinality(db.plans) # Cardinality(Glob(files)))

\* C9 witness: equal counts were reported fresh although a Plan row differs from its file
C9_FreshDespiteDifference ==
  /\ last.op = "initialize"
  /\ last.step = "validate"
  /\ hist.verdict = "fresh"
  /\ \E r \in db.plans : files[r.id].kind # "yaml" \/ files[r.id].doc # r.content

\* C10: when update or complete wrote the file and indexing then failed,
\* the file keeps the new content and a later rebuild makes the index
\* reflect that file.
C10_RebuildRepairs ==
  (/\ RebuildEnded
   /\ hist.broken.file # Null
   /\ files[hist.broken.file] = hist.broken.content)
  => \E r \in db.plans : r.content = hist.broken.content.doc

\* a query has just returned a result while the call in slot s was in flight
Served == last.op = "query" /\ last.result = "ok"

\* C6: a query interleaved with a rebuild never observes a half-written
\* record set: what it returns is what it would return on the complete
\* state before the rebuild or on the complete state after it (no watcher
\* callback has written in between).
C6_QuerySeesWholeState ==
  \A s \in Slots :
    (Served /\ calls[s].kind = "rebuild" /\ hist.applied = <<>>)
    => \/ hist.view.activePlans = CurrentContext(calls[s].pre).activePlans
       \/ \E order \in Orders(Glob(files)) :
            hist.view.activePlans = CurrentContext(IndexEach(EmptyDb, files, order, now)).activePlans

\* C7: the watcher's notifications are processed in delivery order: the
\* _indexPlan call caused by an earlier notification is applied to the index
\* before the one caused by a later notification.
C7_EventsInOrder ==
  \A i, j \in DOMAIN hist.applied : i < j => hist.applied[i] < hist.applied[j]

\* C8: validate and the rebuild complete before any query is served and
\* before initialize starts the watcher: no query returns a result while an
\* initialize call is in flight.
C8_InitializeBeforeQueries ==
  Served => \A s \in Slots : ~calls[s].init

\* C12: update writes the recursive merge of the updates into the current
\* record: a key the updates do not name keeps its value; a key whose update
\* is a mapping holds the key-by-key merge when the current value is a
\* mapping too; in every other case the key holds exactly the update's value
\* (lists are replaced), so that every leaf of the updates is in the result.
C12_MergeKeepsEveryUpdate ==
  LET Inner(cur, upd) ==
        JsObject([k \in DOMAIN cur.o \cup DOMAIN upd.o |->
                    IF k \in DOMAIN upd.o THEN upd.o[k] ELSE cur.o[k]])
      Outer(cur, upd) ==
        JsObject([k \in DOMAIN cur.o \cup DOMAIN upd.o |->
                    IF k \notin DOMAIN upd.o THEN cur.o[k]
                    ELSE IF k \in DOMAIN cur.o /\ _isObject(cur.o[k]) /\ _isObject(upd.o[k])
                    THEN Inner(cur.o[k], upd.o[k])
                    ELSE upd.o[k]])
  IN merged.pc = "done" => merged.output = Outer(merged.target, merged.source)
\* C11: when createPlan fails, the index holds no row for the plan that was
\* being created that it did not hold before the call.
C11_CreateFailsCleanly ==
  (last.op = "create" /\ last.result = "throw")
  => \A r \in db.plans : r.id = hist.cmd.id => r \in hist.cmd.pre.plans

\* C13: updatePlan and completePlan for an id that has no file reject at
\* the read, create no file and leave the index and the pointer as they were.
C13_MissingFileRejected ==
  (last.op \in {"update", "complete"} /\ hist.cmd.file.kind = "absent")
  => /\ last.step = "read"
     /\ last.result = "throw"
     /\ files[hist.cmd.id] = NoFile
     /\ db = hist.cmd.pre
     /\ active = hist.cmd.pointer

\* C13 witness: an update or a complete of a plan without a file was rejected
\* while the index held rows and the pointer was set
C13_RejectedOnFilledIndex ==
  /\ last.op \in {"update", "complete"}
  /\ last.result = "throw"
  /\ hist.cmd.file.kind = "absent"
  /\ db.plans # {}
  /\ active # NoPointer

\* C14: when completePlan(id, summary) has returned (the plans were written
\* by calls only), the file and the Plan row of id have status completed and
\* the timestamp of the call, implementation.summary is the summary when one
\* was given, and every other field is what the file held before.
C14_CompleteSetsStatus ==
  (last.op = "complete" /\ last.step = "index" /\ last.result = "ok" /\ ~hist.outside)
  => LET id == hist.cmd.id
         before == hist.cmd.file.doc
         after == files[id].doc
         rest == DOMAIN before \ {"status", "timestamp", "implementation"}
     IN /\ files[id].kind = "yaml"
        /\ DOMAIN after = DOMAIN before
        /\ after.status = "completed"
        /\ after.timestamp = hist.cmd.at
        /\ \A k \in rest : after[k] = before[k]
        /\ IF hist.cmd.summary = Null
           THEN after.implementation = before.implementation
           ELSE /\ after.implementation.summary = hist.cmd.summary
                /\ \A k \in DOMAIN before.implementation \ {"summary"} :
                      after.implementation[k] = before.implementation[k]
        /\ HasPlan(db, id)
        /\ RowOf(db, id).status = "completed"
        /\ RowOf(db, id).content = after

\* C18: createPlan generates a new identifier on every call, also for a
\* title it was called with before.
C18_IdentifiersUnique == ~hist.regenerated

\* C19: no update or complete call changes the id stored in the plan's file
\* or writes a Plan row under another id than the one it was called with
\* (the plans were written by calls only).
C19_IdentifierImmutable ==
  (last.op \in {"update", "complete"} /\ hist.cmd.file.kind = "yaml" /\ ~hist.outside)
  => /\ files[hist.cmd.id].kind = "yaml"
     /\ files[hist.cmd.id].doc.id = hist.cmd.file.doc.id
     /\ \A r \in db.plans \ hist.cmd.pre.plans : r.id = hist.cmd.id
\* C15: getActivePlan returns the argument of the most recent setActivePlan
\* that no clearActivePlan followed (the plan set last, not one set before),
\* and none when the pointer is absent.
C15_PointerIsLastSet ==
  last.op = "getActivePlan" => hist.got = hist.pointed

\* C15 witness: after setActivePlan(A) and setActivePlan(B), getActivePlan returned B
C15_SecondSetReturned ==
  /\ last.op = "getActivePlan"
  /\ hist.replaced
  /\ hist.got = IdB
  /\ active = IdB

\* C16: createPlan writes and indexes a draft with empty lists and leaves
\* the pointer alone; the create command creates the plan and ends with the
\* pointer on the new plan.
C16_CreateCommandActivates ==
  /\ (last.op = "create" /\ last.step = "write" /\ last.result = "ok")
     => LET plan == files[hist.cmd.id].doc
        IN /\ files[hist.cmd.id].kind = "yaml"
           /\ plan.status = "draft"
           /\ plan.affected_files = <<>>
           /\ plan.planning.constraints = <<>> /\ plan.planning.decisions = <<>>
           /\ plan.implementation.deviations = <<>>
           /\ plan.implementation.patterns_established = <<>>
           /\ plan.relationships = [enables |-> <<>>, blocks |-> <<>>, modifies |-> <<>>]
           /\ HasPlan(db, hist.cmd.id)
           /\ active = hist.cmd.pointer
  /\ last.op = "createCommand"
     => /\ last.result = "ok"
        /\ files[hist.cmd.id].kind = "yaml"
        /\ ActivePlan(active) = hist.cmd.id

ValidFiles(fs) == {f \in Glob(fs) : YamlLoads(fs[f]) /\ _indexPlan(EmptyDb, YamlLoad(fs[f]), 0).ok}

\* C20: a rebuild over a directory that holds a malformed file (unparseable,
\* or parseable but not indexable) ends without raising, with the rows of
\* the valid files in the index and no row from the malformed file.
C20_MalformedFileSkipped ==
  (RebuildEnded /\ Glob(files) # ValidFiles(files))
  => /\ last.result # "throw"
     /\ \E order \in Orders(ValidFiles(files)) :
          Rows(db) = Rows(IndexEach(EmptyDb, files, order, now))

\* the rows of the index that belong to plan id
RowsOfPlan(d, id) ==
  [plans |-> {r \in d.plans : r.id = id},
   file_plans |-> {r \in d.file_plans : r.plan_id = id},
   decisions |-> {r \in d.decisions : r.plan_id = id},
   patterns |-> {r \in d.patterns : r.plan_id = id},
   constraints |-> {r \in d.constraints : r.plan_id = id}]

\* C21: a watcher callback for an added or changed file that fails (the file
\* cannot be read or parsed, or _indexPlan throws) logs the failure: nothing
\* is thrown, the watcher keeps running with its pending notifications, and
\* the rows of every plan other than the one of that file stay as they were.
C21_CallbackFailureIsolated ==
  [][\A s \in Slots :
       (/\ calls[s].kind = "handler"
        /\ calls[s].pc = "index"
        /\ IsIdle(s)'
        /\ last'.result # "ok")
       => /\ last'.result = "logged"
          /\ watcher' = watcher
          /\ events' = events
          /\ \A id \in PlanIds \ {calls[s].id} : RowsOfPlan(db', id) = RowsOfPlan(db, id)]_vars

\* C21 witness: after a callback had failed in _indexPlan, a later
\* notification for another file was handled and its plan indexed, beside
\* the rows the failed call left
C21_LaterNotificationHandled ==
  /\ last = Step("handler", "index", "ok")
  /\ hist.logged = "index"
  /\ handle = "open"
  /\ hist.indexed = IdB
  /\ HasPlan(db, IdA)

\* C23: a manager has at most one watcher: startWatcher while one runs
\* changes nothing, stopWatcher closes the running one and a later
\* startWatcher starts a new one, stopWatcher without one changes nothing.
C23_OneWatcher ==
  [][/\ hist'.watchers = (IF watcher' THEN 1 ELSE 0)
     /\ last'.op = "startWatcher"
          => /\ watcher'
             /\ last'.result = (IF watcher THEN "noop" ELSE "ok")
             /\ watcher => UNCHANGED <<watcher, events, evCount, db, files, handle>>
     /\ last'.op = "stopWatcher"
          => /\ ~watcher'
             /\ last'.result = (IF watcher THEN "ok" ELSE "noop")
             /\ ~watcher => UNCHANGED <<watcher, events, evCount, db, files, handle>>]_vars

\* C23 witness: a watcher was started again after stopWatcher had stopped one
C23_StartedAfterStop ==
  /\ last = Step("startWatcher", "call", "ok")
  /\ watcher
  /\ hist.stopped

PlansIn(d) ==
  {r.id : r \in d.plans} \cup {r.plan_id : r \in d.file_plans} \cup {r.plan_id : r \in d.decisions}
    \cup {r.plan_id : r \in d.patterns} \cup {r.plan_id : r \in d.constraints}

\* C22: the callback for a removed file leaves the index as it is, and a
\* rebuild that has ended (no callback has indexed anything meanwhile) leaves
\* no Plan row and no derived row of a plan whose file is absent.
C22_StaleRowUntilRebuild ==
  [][/\ (last'.op = "handler" /\ last'.step = "removed") => db' = db
     /\ (RebuildEnded' /\ hist'.applied = <<>>)
          => \A id \in PlansIn(db') : files'[id].kind # "absent"]_vars

\* C25: the plan files are changed by createPlan, updatePlan and
\* completePlan only, each writing the file of its own plan: no step of a
\* rebuild, of validate or initialize, of a watcher callback, of the pointer
\* operations or of a query changes a file, and no step removes one.
C25_OnlyCommandsWriteFiles ==
  [][/\ files' # files
          => /\ last'.op \in Commands
             /\ \A f \in PlanIds \ {hist'.cmd.id} : files'[f] = files[f]
     /\ \A f \in Glob(files) : f \in Glob(files')]_vars

\* C25 witness: a plan file exists, a watcher callback has indexed it, and
\* the pointer was set and read
C25_ReadersRan ==
  /\ Glob(files) # {}
  /\ hist.applied # <<>>
  /\ active = IdA
  /\ hist.got = IdA
  /\ last = Step("getActivePlan", "read", "ok")

\* C26: round trip: the plan createPlan returns, dumped to its file, loaded
\* again and given to _indexPlan, yields a Plan row whose id, status, title
\* and description are those of the returned plan and whose content is the
\* JSON text of the returned plan.
C26_CreateRoundTrip ==
  trip.pc = "indexed"
  => /\ trip.ok
     /\ \A k \in {"id", "status", "title", "description"} : trip.row[k] = trip.plan[k]
     /\ trip.row.content = [k \in ScalarKeys |-> Stringify(trip.plan[k])]

\* C26 witness: a plan whose description reads as a YAML boolean went
\* through its file and came back as that text
C26_QuotedTextComesBack ==
  /\ trip.pc = "indexed"
  /\ trip.description = "true"
  /\ trip.text["description"].style = "quoted"
  /\ trip.row.description = Str("true")

\* the files determine the rows of the index, and d holds these rows
InSync(d, fs) ==
  \A order \in Orders(Glob(fs)) : Rows(d) = Rows(IndexEach(EmptyDb, fs, order, now))

EdgeTypes == {"enables", "blocks", "modifies"}

\* the elements of a list
Range(list) == {list[i] : i \in DOMAIN list}

\* C28: after a successful _indexPlan of a plan whose relationships name
\* another indexed plan, related of either plan returns the typed edge
\* between them and the summary of the plan at its other end.
C28_EdgesDerived ==
  (Opened /\ last.step = "index" /\ last.result \in {"ok", "pending"} /\ HasPlan(db, hist.indexed))
  => LET a == hist.indexed
     IN \A b \in PlanIds \ {a}, type \in EdgeTypes :
          (HasPlan(db, b) /\ b \in Range(RowOf(db, a).content.relationships[type]))
          => /\ \E e \in Related(db, a).relationships :
                  e.from_plan = a /\ e.to_plan = b /\ e.edge_type = type
             /\ \E p \in Related(db, a).relatedPlans : p.id = b
             /\ \E e \in Related(db, b).relationships :
                  e.from_plan = a /\ e.to_plan = b /\ e.edge_type = type
             /\ \E p \in Related(db, b).relatedPlans : p.id = a

\* the paths plans are asked about
Paths == {"f", "g"}

\* C29: fileHistory(path) lists exactly the indexed plans whose
\* affected_files hold path, each once, with its operation tag: none for a
\* path no plan lists, the plan after an update has put path into its
\* affected_files, no longer after an update has taken it out.
C29_FileHistoryExact ==
  Opened
  => \A path \in Paths : \A history \in FileHistory(db, path) :
       /\ {history[i].id : i \in DOMAIN history}
            = {r.id : r \in {x \in db.plans : path \in Range(x.content.affected_files)}}
       /\ \A i, j \in DOMAIN history : history[i].id = history[j].id => i = j
       /\ \A i \in DOMAIN history : history[i].operation = "modified"

\* the last call was an updatePlan that has returned and that changed
\* nothing but the status of its plan, to status; the files and the index
\* were written by the commands alone and the file holds the id it is named by
StatusOnlyUpdate(status) ==
  /\ last = Step("update", "index", "ok")
  /\ ~hist.outside
  /\ YamlLoads(hist.cmd.file)
  /\ YamlLoad(hist.cmd.file).id = hist.cmd.id
  /\ files[hist.cmd.id] = YamlDump([YamlLoad(hist.cmd.file) EXCEPT !.status = status])

\* C30: an update that touches only the status sets the status in the file
\* and in the index and leaves the rows of the decisions, patterns and
\* constraints tables as they were before the update.
C30_StatusUpdateKeepsDerived ==
  StatusOnlyUpdate("active")
  => /\ YamlLoad(files[hist.cmd.id]).status = "active"
     /\ \E r \in db.plans : r.id = hist.cmd.id /\ r.status = "active"
     /\ db.decisions = hist.cmd.pre.decisions
     /\ db.patterns = hist.cmd.pre.patterns
     /\ db.constraints = hist.cmd.pre.constraints

\* C31: search(query) returns, as its plan result set, exactly the indexed
\* plans whose search document matches the query, and the matching
\* decisions and patterns as result sets of their own.
C31_SearchExact ==
  (last = Step("query", "searchContext", last.result) /\ Opened)
  => /\ hist.found.ok
     /\ hist.found.plans = {r.content : r \in {x \in db.plans : DocMatches(SearchDoc(x), hist.found.query)}}
     /\ hist.found.decisions = {r \in db.decisions : Like(r.description, hist.found.query)
                                                       \/ Like(r.rationale, hist.found.query)}
     /\ hist.found.patterns = {r \in db.patterns : Like(r.pattern, hist.found.query)}

\* the plan identifiers the derived rows of an index name
Owners(d) ==
  {r.plan_id : r \in d.decisions \cup d.patterns \cup d.constraints}
  \cup {r.plan_id : r \in d.file_plans}
  \cup {r.from_plan : r \in d.plan_edges} \cup {r.to_plan : r \in d.plan_edges}

RowsOwned(table, id) == {r \in table : r.plan_id = id}

\* rows with AUTOINCREMENT ids in the order they were inserted
ById(rows) == CHOOSE o \in Orders(rows) : \A i, j \in DOMAIN o : i < j => o[i].id < o[j].id

\* an _indexPlan call has just returned
JustIndexed == last.step = "index" /\ last.result \in {"ok", "pending"}

DocsOf(d, id) == {i \in DOMAIN d.plan_search : d.plan_search[i].plan_id = id}

\* C34: the index holds exactly one search document per Plan row, with the
\* title, description and content of the row, and no document for an id
\* that has no Plan row.
C34_OneSearchDocPerPlan ==
  /\ \A r \in db.plans :
        /\ Cardinality(DocsOf(db, r.id)) = 1
        /\ \A i \in DocsOf(db, r.id) : db.plan_search[i] = SearchDoc(r)
  /\ \A i \in DOMAIN db.plan_search : HasPlan(db, db.plan_search[i].plan_id)

\* C35: after a successful _indexPlan(p) each decision row of p.id holds
\* the description, the rationale and the list of alternatives of its
\* entry of planning.decisions.
C35_DecisionAlternativesKept ==
  JustIndexed
  => LET id == hist.indexed
         decisions == RowOf(db, id).content.planning.decisions
         ds == ById(RowsOwned(db.decisions, id))
     IN /\ Len(ds) = Len(decisions)
        /\ \A i \in DOMAIN ds : /\ ds[i].description = decisions[i].description
                                 /\ ds[i].rationale = decisions[i].rationale
                                 /\ ds[i].alternatives = decisions[i].alternatives

\* C36: every constraint row has severity 'warning' and type 'planning',
\* so getCurrentContext returns no active constraint and
\* verifyImplementation no violation, whatever the files hold.
C36_ConstraintsAreWarnings ==
  /\ \A c \in db.constraints : c.severity = "warning" /\ c.constraint_type = "planning"
  /\ CurrentContext(db).activeConstraints = {}
  /\ \A path \in Paths, accesses \in BOOLEAN : Violations(db, path, accesses) = {}

\* C36 (witness): an active plan that affects f is indexed with the
\* constraint verifyImplementation knows how to check.
C36_CheckedConstraintIndexed ==
  \E c \in db.constraints, p \in db.plans, fp \in db.file_plans :
    /\ p.id = c.plan_id /\ p.status = "active"
    /\ fp.plan_id = c.plan_id /\ fp.file_path = "f"
    /\ ForbidsDatabaseAccess(c.description)

\* C37: a createPlan that returns leaves a file that existed under the
\* generated identifier as it was, whatever the index held.
C37_CreateKeepsExistingFile ==
  (last = Step("create", "write", "ok") /\ hist.cmd.file # NoFile)
  => files[hist.cmd.id] = hist.cmd.file

\* reindexPlans has just returned: its last file was indexed or logged
RebuildReturned == last.op = "rebuild" /\ last.result \in {"ok", "logged"} /\ Quiet

\* C38: right after reindexPlans has returned, with no file changed since,
\* _validateDatabase reports the index fresh, whatever the directory holds.
C38_RebuildThenFresh ==
  RebuildReturned => ~NeedsRebuild(Cardinality(db.plans), Glob(files), FALSE)

\* every field a call changed in the text it read has the call's value in final
Keeps(final, base, written) ==
  \A k \in DOMAIN YamlLoad(base) :
    YamlLoad(written)[k] # YamlLoad(base)[k] => YamlLoad(final)[k] = YamlLoad(written)[k]

\* C39: two updatePlan calls on one plan that touch different fields and
\* overlap both take effect: when both have returned the file holds both
\* changes and the content of the Plan row is the content of the file.
C39_OverlappingUpdatesBothApply ==
  (hist.raced.id # Null /\ ~hist.rejected /\ \A s \in Slots : IsIdle(s))
  => /\ Keeps(files[hist.raced.id], hist.raced.base, hist.raced.first)
     /\ Keeps(files[hist.raced.id], hist.raced.base, hist.raced.second)
     /\ HasPlan(db, hist.raced.id)
     /\ RowOf(db, hist.raced.id).content = YamlLoad(files[hist.raced.id])

\* the watcher runs and has handled every notification it was sent
WatcherCaughtUp ==
  /\ watcher
  /\ events = <<>>
  /\ \A s \in Slots : IsIdle(s)
  /\ hist.applied # <<>>

\* C40: when the watcher has handled the notifications of added and changed
\* files, the Plan rows are those a rebuild of an empty index would produce
\* from the directory: in particular no row is left under an id a file
\* declared before.
C40_WatcherAgreesWithRebuild ==
  WatcherCaughtUp
  => \A order \in Orders(Glob(files)) : db.plans = IndexEach(EmptyDb, files, order, now).plans
====
